---------------------------- MODULE Spec2Model ----------------------------
(***************************************************************************)
(* Model of muninn_earthcare.py: the EarthCARE product-type plugin for the *)
(* muninn catalogue.  A product-type descriptor (EOFProduct and its two    *)
(* subclasses) recognises product files by name, extracts metadata from    *)
(* the file name and the EOF header, and packages products into zip        *)
(* archives.                                                               *)
(*                                                                         *)
(* A Python str is modelled as a sequence of one-character strings, so     *)
(* that matching, slicing and path arithmetic are computed character by    *)
(* character as the code computes them.  A Python call is modelled by an   *)
(* operator returning [exc, value]: exc = "None" for a normal return, or   *)
(* the name of the exception raised.                                       *)
(***************************************************************************)
EXTENDS Integers, Sequences, FiniteSets, TLC

VARIABLES
  self,   \* the descriptor the host catalogue works with (one registry entry)
  fs,     \* the filesystem: path -> [kind, ...]
  call,   \* the last call made on the descriptor and its arguments
  result     \* what that call returned or raised: [exc, value]

vars == <<self, fs, call, result>>

---------------------------------------------------------------------------
(* Characters and str helpers                                              *)

Digit == {"0", "1", "2", "3", "4", "5", "6", "7", "8", "9"}
Upper == {"A", "B", "C", "D", "E", "F", "G", "H", "I", "J", "K", "L", "M",
          "N", "O", "P", "Q", "R", "S", "T", "U", "V", "W", "X", "Y", "Z"}
Lower == {"a", "b", "c", "d", "e", "f", "g", "h", "i", "j", "k", "l", "m",
          "n", "o", "p", "q", "r", "s", "t", "u", "v", "w", "x", "y", "z"}
\* \w and \d of the re module, over the ASCII alphabet of the model
WordChar == Digit \cup Upper \cup Lower \cup {"_"}

\* Python's None where a str is expected (never equal to a str of the model)
None == <<"None">>

Return(v) == [exc |-> "None", value |-> v]
Raise(e) == [exc |-> e, value |-> None]

Max(S) == CHOOSE m \in S : \A k \in S : k <= m

\* s.endswith(suffix)
endswith(s, suffix) ==
  /\ Len(s) >= Len(suffix)
  /\ SubSeq(s, Len(s) - Len(suffix) + 1, Len(s)) = suffix

\* s.startswith(prefix, pos): prefix occurs in s at (1-based) position pos
startswith_at(s, prefix, pos) ==
  /\ pos + Len(prefix) - 1 <= Len(s)
  /\ SubSeq(s, pos, pos + Len(prefix) - 1) = prefix

\* s.rfind(c) as a 1-based index, 0 when c does not occur (Python: -1)
rfind(s, c) ==
  LET I == {i \in 1..Len(s) : s[i] = c}
  IN  IF I = {} THEN 0 ELSE Max(I)

\* s.rstrip("/")
rstrip_sep(s) ==
  LET I == {i \in 1..Len(s) : s[i] # "/"}
  IN  IF I = {} THEN <<>> ELSE SubSeq(s, 1, Max(I))

---------------------------------------------------------------------------
(* os.path (posixpath), as called by the module                            *)

\* os.path.basename(p)
basename(p) == SubSeq(p, rfind(p, "/") + 1, Len(p))

\* os.path.dirname(p)
dirname(p) ==
  LET head == SubSeq(p, 1, rfind(p, "/"))
  IN  IF head # <<>> /\ (\E i \in 1..Len(head) : head[i] # "/")
      THEN rstrip_sep(head)
      ELSE head

\* os.path.splitext(p): <<root, ext>>; leading dots of the last component
\* do not start an extension
splitext(p) ==
  LET sepIndex == rfind(p, "/")
      dotIndex == rfind(p, ".")
  IN  IF /\ dotIndex > sepIndex
         /\ \E k \in (sepIndex + 1)..(dotIndex - 1) : p[k] # "."
      THEN <<SubSeq(p, 1, dotIndex - 1), SubSeq(p, dotIndex, Len(p))>>
      ELSE <<p, <<>>>>

\* os.path.join(a, b)
join(a, b) ==
  IF b # <<>> /\ b[1] = "/" THEN b
  ELSE IF a = <<>> \/ a[Len(a)] = "/" THEN a \o b
  ELSE a \o <<"/">> \o b

\* str.split("/") of a path
RECURSIVE split_sep(_)
split_sep(p) ==
  LET I == {i \in 1..Len(p) : p[i] = "/"}
  IN  IF I = {} THEN <<p>>
      ELSE LET i == Max(I)
           IN  Append(split_sep(SubSeq(p, 1, i - 1)), SubSeq(p, i + 1, Len(p)))

\* the component loop of os.path.normpath: drops "" and ".", resolves ".."
RECURSIVE norm_comps(_, _, _)
norm_comps(comps, i, isabs) ==
  IF i = 0 THEN <<>>
  ELSE LET done == norm_comps(comps, i - 1, isabs)
           comp == comps[i]
       IN  IF comp = <<>> \/ comp = <<".">> THEN done
           ELSE IF comp # <<".", ".">>
                   \/ (~isabs /\ done = <<>>)
                   \/ (done # <<>> /\ done[Len(done)] = <<".", ".">>)
                THEN Append(done, comp)
           ELSE IF done # <<>> THEN SubSeq(done, 1, Len(done) - 1)
           ELSE done

RECURSIVE join_sep(_)
join_sep(comps) ==
  IF comps = <<>> THEN <<>>
  ELSE IF Len(comps) = 1 THEN comps[1]
  ELSE join_sep(SubSeq(comps, 1, Len(comps) - 1)) \o <<"/">> \o comps[Len(comps)]

\* os.path.normpath(p)
normpath(p) ==
  IF p = <<>> THEN <<".">>
  ELSE LET isabs == p[1] = "/"
           \* POSIX: exactly two leading slashes are kept, otherwise one
           slashes == IF isabs /\ startswith_at(p, <<"/", "/">>, 1)
                                /\ ~startswith_at(p, <<"/", "/", "/">>, 1)
                      THEN <<"/", "/">>
                      ELSE IF isabs THEN <<"/">> ELSE <<>>
           comps == norm_comps(split_sep(p), Len(split_sep(p)), isabs)
           path == slashes \o join_sep(comps)
       IN  IF path = <<>> THEN <<".">> ELSE path

\* os.getcwd(): the working directory of the catalogue process
cwd == <<"/", "w">>

\* os.path.abspath(p)
abspath(p) ==
  IF p # <<>> /\ p[1] = "/" THEN normpath(p) ELSE normpath(join(cwd, p))

\* The filesystem maps each absolute normalised path that exists to its
\* node: [kind |-> "dir"], [kind |-> "file", content] or
\* [kind |-> "zip", entries]; a path names the node at abspath(path)
exists(f, p) == abspath(p) \in DOMAIN f
node(f, p) == f[abspath(p)]

\* os.path.isdir(p): false for a path that does not exist
isdir(f, p) == exists(f, p) /\ node(f, p).kind = "dir"

L0_PRODUCT_TYPES ==
  {
    <<"A","T","L","_","N","O","M","_","0","_">>,
    <<"B","B","R","_","N","O","M","_","0","_">>,
    <<"C","P","R","_","N","O","M","_","0","_">>,
    <<"M","S","I","_","N","O","M","_","0","_">>,
    <<"T","L","M","_","N","O","M","_","0","_">>
  }

L1_PRODUCT_TYPES ==
  {
    <<"A","T","L","_","N","O","M","_","1","B">>,
    <<"A","T","L","_","D","C","C","_","1","B">>,
    <<"A","T","L","_","C","S","C","_","1","B">>,
    <<"A","T","L","_","F","S","C","_","1","B">>,
    <<"B","B","R","_","N","O","M","_","1","B">>,
    <<"B","B","R","_","S","N","G","_","1","B">>,
    <<"B","B","R","_","S","O","L","_","1","B">>,
    <<"B","B","R","_","L","I","N","_","1","B">>,
    <<"C","P","R","_","N","O","M","_","1","B">>,
    <<"M","S","I","_","N","O","M","_","1","B">>,
    <<"M","S","I","_","B","B","S","_","1","B">>,
    <<"M","S","I","_","S","D","1","_","1","B">>,
    <<"M","S","I","_","S","D","2","_","1","B">>,
    <<"M","S","I","_","D","R","K","_","1","B">>,
    <<"M","S","I","_","T","R","F","_","1","B">>,
    <<"M","S","I","_","R","G","R","_","1","C">>,
    <<"A","U","X","_","J","S","G","_","1","D">>,
    <<"A","U","X","_","M","E","T","_","1","D">>
  }

L2_PRODUCT_TYPES ==
  {
    <<"A","T","L","_","F","M","_","_","2","A">>,
    <<"A","T","L","_","A","L","D","_","2","A">>,
    <<"A","T","L","_","C","T","H","_","2","A">>,
    <<"A","T","L","_","A","E","R","_","2","A">>,
    <<"A","T","L","_","E","B","D","_","2","A">>,
    <<"A","T","L","_","I","C","E","_","2","A">>,
    <<"A","T","L","_","T","C","_","_","2","A">>,
    <<"C","P","R","_","A","P","C","_","2","A">>,
    <<"C","P","R","_","C","D","_","_","2","A">>,
    <<"C","P","R","_","C","L","D","_","2","A">>,
    <<"C","P","R","_","F","M","R","_","2","A">>,
    <<"C","P","R","_","T","C","_","_","2","A">>,
    <<"M","S","I","_","A","O","T","_","2","A">>,
    <<"M","S","I","_","C","M","_","_","2","A">>,
    <<"M","S","I","_","C","O","P","_","2","A">>,
    <<"A","C","_","_","T","C","_","_","2","B">>,
    <<"A","C","M","_","C","A","P","_","2","B">>,
    <<"A","C","M","_","C","O","M","_","2","B">>,
    <<"A","C","M","_","R","T","_","_","2","B">>,
    <<"A","L","L","_","3","D","_","_","2","B">>,
    <<"A","L","L","_","D","F","_","_","2","B">>,
    <<"A","M","_","_","A","C","D","_","2","B">>,
    <<"A","M","_","_","C","T","H","_","2","B">>,
    <<"A","M","_","_","M","O","_","_","2","B">>,
    <<"B","M","_","_","R","A","D","_","2","B">>,
    <<"B","M","A","_","F","L","X","_","2","B">>
  }

GEO_PRODUCT_TYPES ==
  {
    <<"G","E","O","_","A","T","T","O","B","S">>,
    <<"G","E","O","_","O","R","B","O","B","S">>
  }

FOS_PRODUCT_TYPES ==
  {
    <<"A","U","X","_","O","R","B","P","R","E">>,
    <<"A","U","X","_","O","R","B","R","E","S">>
  }

MPL_PRODUCT_TYPES ==
  {
    <<"M","P","L","_","O","R","B","S","C","T">>
  }

---------------------------------------------------------------------------
(* Regular expressions.  A pattern is a sequence of tokens:                *)
(*   [t |-> "lit", s]            literal text                              *)
(*   [t |-> "grp", name, cls]    (?P<name>...) of fixed width: cls is the  *)
(*                               sequence of its character classes         *)
(*   [t |-> "opt_end", s]        (s$)?                                     *)
(*   [t |-> "alt_end", alts]     (a|b)$                                    *)
(*   [t |-> "lit_end", s]        s$                                        *)

DOT_ZIP == <<".", "Z", "I", "P">>
DOT_HDR == <<".", "H", "D", "R">>
DOT_EOF == <<".", "E", "O", "F">>

Lit(s) == [t |-> "lit", s |-> s]
Grp(name, cls) == [t |-> "grp", name |-> name, cls |-> cls]
\* cls{n}
Rep(cls, n) == [k \in 1..n |-> cls]

\* \d{8}T\d{6}Z
TimestampCls == Rep(Digit, 8) \o <<{"T"}>> \o Rep(Digit, 6) \o <<{"Z"}>>

\* "_".join(pattern)
RECURSIVE join_underscore(_)
join_underscore(pattern) ==
  IF Len(pattern) <= 1 THEN pattern
  ELSE join_underscore(SubSeq(pattern, 1, Len(pattern) - 1))
         \o <<Lit(<<"_">>), pattern[Len(pattern)]>>

\* $ : at the end of the string, or just before a newline that ends it
AtEnd(s, pos) == pos = Len(s) + 1 \/ (pos = Len(s) /\ s[pos] = "\n")

NoMatch == [matched |-> FALSE, groups |-> <<>>]

\* re.match(pattern, s) from token i at position pos; every token but the
\* optional group has one width, so there is one way to match
RECURSIVE match_from(_, _, _, _)
match_from(pattern, i, s, pos) ==
  IF i > Len(pattern) THEN [matched |-> TRUE, groups |-> <<>>]
  ELSE LET tok == pattern[i]
       IN  CASE tok.t = "lit" ->
                  IF startswith_at(s, tok.s, pos)
                  THEN match_from(pattern, i + 1, s, pos + Len(tok.s))
                  ELSE NoMatch
             [] tok.t = "grp" ->
                  LET w == Len(tok.cls)
                      text == SubSeq(s, pos, pos + w - 1)
                      rest == match_from(pattern, i + 1, s, pos + w)
                  IN  IF /\ pos + w - 1 <= Len(s)
                         /\ \A k \in 1..w : text[k] \in tok.cls[k]
                         /\ rest.matched
                      THEN [matched |-> TRUE,
                            groups |-> (tok.name :> text) @@ rest.groups]
                      ELSE NoMatch
             [] tok.t = "opt_end" ->
                  \* the group may match nothing: the rest of s is free
                  match_from(pattern, i + 1, s, pos)
             [] tok.t = "alt_end" ->
                  IF \E a \in tok.alts :
                       startswith_at(s, a, pos) /\ AtEnd(s, pos + Len(a))
                  THEN match_from(pattern, i + 1, s, Len(s) + 1)
                  ELSE NoMatch
             [] tok.t = "lit_end" ->
                  IF startswith_at(s, tok.s, pos) /\ AtEnd(s, pos + Len(tok.s))
                  THEN match_from(pattern, i + 1, s, Len(s) + 1)
                  ELSE NoMatch

\* re.match(pattern, s): anchored at the start of s
re_match(pattern, s) == match_from(pattern, 1, s, 1)

---------------------------------------------------------------------------
(* Descriptors                                                             *)

\* EOFProduct.__init__; zipped is "None", "True" or "False"
EOFProduct(product_type, filename_base_pattern, extension, zipped) ==
  LET is_multi_file_product == extension = None
  IN  [product_type |-> product_type,
       is_multi_file_product |-> is_multi_file_product,
       extension |-> extension,
       use_enclosing_directory |-> is_multi_file_product /\ zipped # "True",
       filename_pattern |->
         IF zipped = "None"
         THEN IF extension = None
              THEN Append(filename_base_pattern,
                          [t |-> "opt_end", s |-> DOT_ZIP])
              ELSE Append(filename_base_pattern,
                          [t |-> "alt_end", alts |-> {extension, DOT_ZIP}])
         ELSE IF zipped = "True"
         THEN Append(filename_base_pattern, [t |-> "lit_end", s |-> DOT_ZIP])
         ELSE IF extension # None
              THEN Append(filename_base_pattern,
                          [t |-> "lit_end", s |-> extension])
              ELSE filename_base_pattern]

\* EarthCAREProduct.__init__
EarthCAREProduct(product_type, extension, zipped) ==
  LET pattern == <<
        Lit(<<"E", "C", "A">>),
        Grp("file_class", Rep(WordChar, 4)),
        Lit(product_type),
        Grp("validity_start", TimestampCls),
        Grp("creation_date", TimestampCls),
        \* two adjacent groups of one list element
        Grp("orbit_number", Rep(Digit, 5))>>
      frame == Grp("frame_id", Rep(Upper, 1))
  IN  EOFProduct(product_type, Append(join_underscore(pattern), frame),
                 extension, zipped)

\* AUXProduct.__init__
AUXProduct(product_type, zipped) ==
  LET pattern == <<
        Lit(<<"E", "C", "A">>),
        Grp("file_class", Rep(WordChar, 4)),
        Lit(product_type),
        Grp("validity_start", TimestampCls),
        Grp("validity_stop", TimestampCls),
        Grp("version", Rep(Digit, 4))>>
  IN  EOFProduct(product_type, join_underscore(pattern), DOT_EOF, zipped)

\* _product_types: the registry
product_types ==
  L0_PRODUCT_TYPES \cup L1_PRODUCT_TYPES \cup L2_PRODUCT_TYPES
    \cup GEO_PRODUCT_TYPES \cup FOS_PRODUCT_TYPES \cup MPL_PRODUCT_TYPES

product_type_plugin(product_type) ==
  IF product_type \in L0_PRODUCT_TYPES \cup L1_PRODUCT_TYPES \cup L2_PRODUCT_TYPES
  THEN EarthCAREProduct(product_type, None, "None")
  ELSE IF product_type \in GEO_PRODUCT_TYPES
  THEN EarthCAREProduct(product_type, DOT_EOF, "None")
  ELSE AUXProduct(product_type, "None")

\* EOFProduct.enclosing_directory
enclosing_directory(d, properties) == properties.core.product_name

\* EOFProduct.is_zipped
is_zipped(filepath) == endswith(filepath, DOT_ZIP)

\* parse_filename matching the whole path instead of its basename
parse_filename_whole_path(d, filename) ==
  LET match == re_match(d.filename_pattern, filename)
  IN  IF match.matched THEN match.groups ELSE None

\* EOFProduct.parse_filename: the group dictionary, or None
parse_filename(d, filename) ==
  LET match == re_match(d.filename_pattern, basename(filename))
  IN  IF match.matched THEN match.groups ELSE None

\* the loop of identify over the paths of an unzipped multi-file product
RECURSIVE identify_each(_, _, _, _)
identify_each(d, paths, i, f) ==
  IF i > Len(paths) THEN TRUE
  ELSE IF isdir(f, paths[i]) THEN FALSE
  ELSE IF ~re_match(d.filename_pattern, basename(paths[i])).matched THEN FALSE
  ELSE identify_each(d, paths, i + 1, f)

\* EOFProduct.identify
identify(d, paths, f) ==
  IF d.is_multi_file_product /\ paths = <<>> THEN Raise("IndexError")
  ELSE IF d.is_multi_file_product /\ ~is_zipped(paths[1])
  THEN IF Len(paths) # 2 THEN Return(FALSE)
       ELSE Return(identify_each(d, paths, 1, f))
  ELSE IF Len(paths) # 1 THEN Return(FALSE)
  ELSE IF isdir(f, paths[1]) THEN Return(FALSE)
  ELSE Return(re_match(d.filename_pattern, basename(paths[1])).matched)

---------------------------------------------------------------------------
(* int(), float() and datetime                                             *)

DigitSeq == <<"0", "1", "2", "3", "4", "5", "6", "7", "8", "9">>
DigitVal(c) == (CHOOSE k \in 1..Len(DigitSeq) : DigitSeq[k] = c) - 1
IsDigits(s) == \A k \in 1..Len(s) : s[k] \in Digit

\* int(s) of a string of decimal digits
RECURSIVE int(_)
int(s) ==
  IF s = <<>> THEN 0
  ELSE 10 * int(SubSeq(s, 1, Len(s) - 1)) + DigitVal(s[Len(s)])

RECURSIVE Pow10(_)
Pow10(k) == IF k = 0 THEN 1 ELSE 10 * Pow10(k - 1)

\* float(s) of a plain decimal text [-]digits[.digits], as the exact
\* fraction num/den; any other text of the model raises ValueError
float(s) ==
  LET neg == s # <<>> /\ s[1] = "-"
      body == IF neg THEN Tail(s) ELSE s
      dot == rfind(body, ".")
      ip == IF dot = 0 THEN body ELSE SubSeq(body, 1, dot - 1)
      fp == IF dot = 0 THEN <<>> ELSE SubSeq(body, dot + 1, Len(body))
  IN  IF IsDigits(ip) /\ IsDigits(fp) /\ ip \o fp # <<>>
      THEN Return([num |-> (IF neg THEN -1 ELSE 1) * int(ip \o fp),
                   den |-> Pow10(Len(fp))])
      ELSE Raise("ValueError")

\* datetime.max: its microsecond is 999999, which no strptime of a format
\* without %f produces
datetime_max ==
  [year |-> 9999, month |-> 12, day |-> 31,
   hour |-> 23, minute |-> 59, second |-> 59, microsecond |-> 999999]

IsLeap(y) == y % 4 = 0 /\ (y % 100 # 0 \/ y % 400 = 0)
DaysInMonth(y, m) ==
  IF m = 2 THEN (IF IsLeap(y) THEN 29 ELSE 28)
  ELSE IF m \in {4, 6, 9, 11} THEN 30 ELSE 31

\* the values the regular expression of a strptime directive accepts, by
\* the number of digits matched
DirectiveAccepts(directive, w, v) ==
  CASE directive = "Y" -> TRUE
    [] directive = "m" -> 1 <= v /\ v <= (IF w = 2 THEN 12 ELSE 9)
    [] directive = "d" -> 1 <= v /\ v <= (IF w = 2 THEN 31 ELSE 9)
    [] directive = "H" -> v <= (IF w = 2 THEN 23 ELSE 9)
    [] directive = "M" -> v <= (IF w = 2 THEN 59 ELSE 9)
    [] directive = "S" -> v <= (IF w = 2 THEN 61 ELSE 9)

NoParse == [ok |-> FALSE, fields |-> <<>>]

\* the match of the regular expression strptime compiles from format: %Y
\* is four digits, every other directive two digits or else one, a literal
\* is itself, and nothing may remain
RECURSIVE strptime_from(_, _, _, _)
strptime_from(format, i, s, pos) ==
  IF i > Len(format)
  THEN IF pos = Len(s) + 1 THEN [ok |-> TRUE, fields |-> <<>>] ELSE NoParse
  ELSE IF format[i] = "%"
  THEN LET directive == format[i + 1]
           Try(w) ==
             LET text == SubSeq(s, pos, pos + w - 1)
                 rest == strptime_from(format, i + 2, s, pos + w)
             IN  IF /\ pos + w - 1 <= Len(s)
                    /\ IsDigits(text)
                    /\ DirectiveAccepts(directive, w, int(text))
                    /\ rest.ok
                 THEN [ok |-> TRUE,
                       fields |-> (directive :> int(text)) @@ rest.fields]
                 ELSE NoParse
           two == Try(2)
       IN  IF directive = "Y" THEN Try(4)
           ELSE IF two.ok THEN two
           ELSE Try(1)
  ELSE IF pos <= Len(s) /\ s[pos] = format[i]
  THEN strptime_from(format, i + 1, s, pos + 1)
  ELSE NoParse

\* datetime.strptime(s, format)
strptime(s, format) ==
  LET m == strptime_from(format, 1, s, 1)
  IN  IF ~m.ok THEN Raise("ValueError")
      ELSE IF \/ m.fields["Y"] < 1
              \/ m.fields["d"] > DaysInMonth(m.fields["Y"], m.fields["m"])
              \/ m.fields["S"] > 59
      THEN Raise("ValueError")
      ELSE Return([year |-> m.fields["Y"], month |-> m.fields["m"],
                   day |-> m.fields["d"], hour |-> m.fields["H"],
                   minute |-> m.fields["M"], second |-> m.fields["S"],
                   microsecond |-> 0])

\* "%Y%m%dT%H%M%SZ"
FILENAME_FORMAT ==
  <<"%", "Y", "%", "m", "%", "d", "T", "%", "H", "%", "M", "%", "S", "Z">>
\* "UTC=%Y-%m-%dT%H:%M:%S"
HEADER_FORMAT ==
  <<"U", "T", "C", "=", "%", "Y", "-", "%", "m", "-", "%", "d", "T",
    "%", "H", ":", "%", "M", ":", "%", "S">>
\* "99999999T999999Z"
FILENAME_STOP_SENTINEL ==
  <<"9", "9", "9", "9", "9", "9", "9", "9", "T", "9", "9", "9", "9", "9", "9", "Z">>
\* "UTC=9999-99-99T99:99:99"
HEADER_STOP_SENTINEL ==
  <<"U", "T", "C", "=", "9", "9", "9", "9", "-", "9", "9", "-", "9", "9", "T",
    "9", "9", ":", "9", "9", ":", "9", "9">>

---------------------------------------------------------------------------
(* Header reading                                                          *)

\* Struct(): a mapping from attribute names to values
Struct == [x \in {} |-> x]

\* the last entry of that name in a zip archive's entry list, 0 if none
\* (ZipFile.open looks the name up in NameToInfo, where a later write of
\* the same name replaces the earlier one)
zip_index(entries, name) ==
  LET I == {i \in 1..Len(entries) : entries[i].name = name}
  IN  IF I = {} THEN 0 ELSE Max(I)

\* ET.parse(file).getroot() of a file's content
ET_parse(content) ==
  IF content.xml THEN Return(content) ELSE Raise("ParseError")

\* EOFProduct.read_xml_component
read_xml_component(d, filepath, component_path, f) ==
  IF is_zipped(filepath)
  THEN LET stem == splitext(basename(filepath))[1]
           component ==
             IF component_path = None
             THEN IF d.extension # None THEN stem \o d.extension ELSE stem
             ELSE IF ~d.is_multi_file_product THEN join(stem, component_path)
             ELSE component_path
       IN  IF ~exists(f, filepath) THEN Raise("FileNotFoundError")
           ELSE IF node(f, filepath).kind = "dir" THEN Raise("IsADirectoryError")
           ELSE IF node(f, filepath).kind # "zip" THEN Raise("BadZipFile")
           ELSE IF zip_index(node(f, filepath).entries, component) = 0
           THEN Raise("KeyError")
           ELSE ET_parse(node(f, filepath).entries[
                           zip_index(node(f, filepath).entries, component)].content)
  ELSE LET path == IF component_path # None
                   THEN join(filepath, component_path)
                   ELSE filepath
       IN  IF ~exists(f, path) THEN Raise("FileNotFoundError")
           ELSE IF node(f, path).kind = "dir" THEN Raise("IsADirectoryError")
           ELSE IF node(f, path).kind = "zip" THEN Raise("ParseError")
           ELSE ET_parse(node(f, path).content)

\* root.find(path): the element's text, or None when there is no such element
find_text(root, path) ==
  IF path \in DOMAIN root.elems THEN root.elems[path] ELSE None

\* the stop of the header: the sentinel is datetime.max, not parsed
header_stop(value) ==
  IF value = HEADER_STOP_SENTINEL THEN Return(datetime_max)
  ELSE strptime(value, HEADER_FORMAT)

\* the footprint part of _analyze_eof_header
header_footprint(root, start_node_path, properties) ==
  LET start == start_node_path \o "Variable_Header/MainProductHeader/frameStartCoordinates"
      stop == start_node_path \o "Variable_Header/MainProductHeader/frameStopCoordinates"
      lat == "/GeographicCoordinates/geographicLatitude"
      lon == "/GeographicCoordinates/geographicLongitude"
      t1 == find_text(root, start \o lat)
      t2 == find_text(root, start \o lon)
      t3 == find_text(root, stop \o lat)
      t4 == find_text(root, stop \o lon)
      start_lat == float(t1)
      start_lon == float(t2)
      stop_lat == float(t3)
      stop_lon == float(t4)
  IN  IF start \notin DOMAIN root.elems THEN Return(properties)
      ELSE IF t1 = None THEN Raise("AttributeError")
      ELSE IF start_lat.exc # "None" THEN start_lat
      ELSE IF t2 = None THEN Raise("AttributeError")
      ELSE IF start_lon.exc # "None" THEN start_lon
      ELSE IF stop \notin DOMAIN root.elems \/ t3 = None THEN Raise("AttributeError")
      ELSE IF stop_lat.exc # "None" THEN stop_lat
      ELSE IF t4 = None THEN Raise("AttributeError")
      ELSE IF stop_lon.exc # "None" THEN stop_lon
      ELSE Return([properties EXCEPT !.core =
             ("footprint" :> <<[x |-> start_lon.value, y |-> start_lat.value],
                               [x |-> stop_lon.value, y |-> stop_lat.value]>>)
               @@ properties.core])

\* EOFProduct._analyze_eof_header: the header's values overlay properties
analyze_eof_header(root, properties) ==
  LET start_node_path ==
        IF root.tag \in {"Earth_Explorer_File"}
        THEN "Earth_Explorer_Header/" ELSE ""
      fixed == start_node_path \o "Fixed_Header/"
      start == find_text(root, fixed \o "Validity_Period/Validity_Start")
      stop == find_text(root, fixed \o "Validity_Period/Validity_Stop")
      creation == find_text(root, fixed \o "Source/Creation_Date")
      system == find_text(root, fixed \o "Source/System")
      creator == find_text(root, fixed \o "Source/Creator")
      version == find_text(root, fixed \o "Source/Creator_Version")
      validity_start == strptime(start, HEADER_FORMAT)
      validity_stop == header_stop(stop)
      creation_date == strptime(creation, HEADER_FORMAT)
  IN  IF start = None THEN Raise("AttributeError")
      ELSE IF validity_start.exc # "None" THEN validity_start
      ELSE IF stop = None THEN Raise("AttributeError")
      ELSE IF validity_stop.exc # "None" THEN validity_stop
      ELSE IF creation = None THEN Raise("AttributeError")
      ELSE IF creation_date.exc # "None" THEN creation_date
      ELSE IF system = None \/ creator = None \/ version = None
      THEN Raise("AttributeError")
      ELSE header_footprint(root, start_node_path,
             [core |-> ("validity_start" :> validity_start.value)
                         @@ ("validity_stop" :> validity_stop.value)
                         @@ ("creation_date" :> creation_date.value)
                         @@ properties.core,
              earthcare |-> ("processing_center" :> system)
                         @@ ("processor_name" :> creator)
                         @@ ("processor_version" :> version)
                         @@ properties.earthcare])

---------------------------------------------------------------------------
(* Analysis                                                                *)

\* s[n:] of Python
slice_from(s, n) == SubSeq(s, n + 1, Len(s))

\* filename_properties taking the baseline from the head of the file
\* class, file_class[:2]
filename_properties_baseline_head(file_name, file_name_attrs, validity_start, validity_stop) ==
  LET has(group) == group \in DOMAIN file_name_attrs
  IN  [core |->
         (IF has("validity_stop")
          THEN "validity_stop" :> validity_stop ELSE Struct)
         @@ ("validity_start" :> validity_start)
         @@ ("product_name" :> splitext(file_name)[1]),
       earthcare |->
         (IF has("file_class")
          THEN ("file_class" :> file_name_attrs["file_class"])
                 @@ ("baseline" :> SubSeq(file_name_attrs["file_class"], 1, 2))
          ELSE Struct)
         @@ (IF has("version")
             THEN "version_number" :> int(file_name_attrs["version"])
             ELSE Struct)
         @@ (IF has("orbit_number")
             THEN "orbit_number" :> int(file_name_attrs["orbit_number"])
             ELSE Struct)
         @@ (IF has("frame_id")
             THEN "frame_id" :> file_name_attrs["frame_id"]
             ELSE Struct)]

\* the properties analyze takes from the groups of the file name, given
\* the parsed validity dates
filename_properties(file_name, file_name_attrs, validity_start, validity_stop) ==
  LET has(group) == group \in DOMAIN file_name_attrs
  IN  [core |->
         (IF has("validity_stop")
          THEN "validity_stop" :> validity_stop ELSE Struct)
         @@ ("validity_start" :> validity_start)
         @@ ("product_name" :> splitext(file_name)[1]),
       earthcare |->
         (IF has("file_class")
          THEN ("file_class" :> file_name_attrs["file_class"])
                 @@ ("baseline" :> slice_from(file_name_attrs["file_class"], 2))
          ELSE Struct)
         @@ (IF has("version")
             THEN "version_number" :> int(file_name_attrs["version"])
             ELSE Struct)
         @@ (IF has("orbit_number")
             THEN "orbit_number" :> int(file_name_attrs["orbit_number"])
             ELSE Struct)
         @@ (IF has("frame_id")
             THEN "frame_id" :> file_name_attrs["frame_id"]
             ELSE Struct)]

\* filename_stop without the test for the sentinel
filename_stop_always_parsed(value) == strptime(value, FILENAME_FORMAT)

\* the stop of the file name: the sentinel is datetime.max, not parsed
filename_stop(value) ==
  IF value = FILENAME_STOP_SENTINEL THEN Return(datetime_max)
  ELSE strptime(value, FILENAME_FORMAT)

\* representative_path taking the second path of a list
representative_path_second(paths) ==
  IF Len(paths) > 1 THEN splitext(paths[2])[1] \o DOT_HDR ELSE paths[1]

\* the path whose name analyze parses and whose header it reads
representative_path(paths) ==
  IF Len(paths) > 1 THEN splitext(paths[1])[1] \o DOT_HDR ELSE paths[1]

\* the component analyze asks read_xml_component for: the header inside
\* the zip when the product is a single zipped file, None otherwise
header_component_path(paths) ==
  IF Len(paths) = 1 /\ is_zipped(representative_path(paths))
  THEN splitext(basename(representative_path(paths)))[1] \o DOT_HDR
  ELSE None

\* EOFProduct.analyze
analyze(d, paths, filename_only, f) ==
  IF paths = <<>> THEN Raise("IndexError")
  ELSE
  LET file_path == representative_path(paths)
      file_name == basename(file_path)
      file_name_attrs == parse_filename(d, file_name)
      start == strptime(file_name_attrs["validity_start"], FILENAME_FORMAT)
      stop == IF "validity_stop" \in DOMAIN file_name_attrs
              THEN filename_stop(file_name_attrs["validity_stop"])
              ELSE Return(None)
      properties == filename_properties(file_name, file_name_attrs,
                                        start.value, stop.value)
      root == read_xml_component(d, file_path, header_component_path(paths), f)
  IN  IF file_name_attrs = None THEN Raise("TypeError")
      ELSE IF start.exc # "None" THEN start
      ELSE IF stop.exc # "None" THEN stop
      ELSE IF filename_only THEN Return(properties)
      ELSE IF root.exc # "None" THEN root
      ELSE analyze_eof_header(root.value, properties)

---------------------------------------------------------------------------
(* Packaging                                                               *)

\* s.lstrip("/")
lstrip_sep(s) ==
  LET I == {i \in 1..Len(s) : s[i] # "/"}
  IN  IF I = {} THEN <<>> ELSE SubSeq(s, CHOOSE i \in I : \A k \in I : i <= k, Len(s))

\* the entry name ZipFile.write(filename, arcname) stores: arcname
\* normalised, without leading separators
zip_arcname(arcname) == lstrip_sep(normpath(arcname))

\* what a zip entry holds of a node
content_of(n) ==
  IF n.kind = "zip" THEN [xml |-> FALSE, data |-> "zip"] ELSE n.content

\* the files os.walk(path) lists, each as os.path.join(base, file), in the
\* order of the directory listing
RECURSIVE seq_of(_)
seq_of(S) ==
  IF S = {} THEN <<>>
  ELSE LET x == CHOOSE y \in S : TRUE IN <<x>> \o seq_of(S \ {x})

walk_files(f, path) ==
  LET top == abspath(path)
      under == {q \in DOMAIN f : /\ startswith_at(q, top \o <<"/">>, 1)
                                 /\ f[q].kind # "dir"}
  IN  seq_of({join(path, slice_from(q, Len(top) + 1)) : q \in under})

\* the loop of compress over paths from the i-th on: the entries written,
\* and the exception that ended the loop if one did
RECURSIVE compress_write(_, _, _, _)
compress_write(paths, i, f, entries) ==
  IF i > Len(paths) THEN [exc |-> "None", entries |-> entries]
  ELSE LET path == paths[i]
           rootlen == Len(dirname(path)) + 1
           files == walk_files(f, path)
       IN  IF isdir(f, path)
           THEN compress_write(paths, i + 1, f,
                  entries \o [k \in 1..Len(files) |->
                     [name |-> zip_arcname(slice_from(files[k], rootlen)),
                      content |-> content_of(node(f, files[k]))]])
           ELSE IF ~exists(f, path)
           THEN [exc |-> "FileNotFoundError", entries |-> entries]
           ELSE compress_write(paths, i + 1, f,
                  Append(entries,
                     [name |-> zip_arcname(slice_from(path, rootlen)),
                      content |-> content_of(node(f, path))]))

\* compress opening the archive in mode "w", which replaces an existing file
compress_mode_w(paths, target_filepath, f) ==
  IF ~isdir(f, dirname(abspath(target_filepath)))
  THEN [exc |-> "FileNotFoundError", fs |-> f]
  ELSE LET archive == compress_write(paths, 1, f, <<>>)
       IN  [exc |-> archive.exc,
            fs |-> (abspath(target_filepath) :>
                      [kind |-> "zip", entries |-> archive.entries]) @@ f]

\* compress(paths, target_filepath, compresslevel): the archive is opened
\* in mode "x", which fails on an existing file; a write that fails leaves
\* the archive as far as it was written.  The compression level does not
\* change the entries and is not modelled.
compress(paths, target_filepath, f) ==
  IF exists(f, target_filepath) THEN [exc |-> "FileExistsError", fs |-> f]
  ELSE IF ~isdir(f, dirname(abspath(target_filepath)))
  THEN [exc |-> "FileNotFoundError", fs |-> f]
  ELSE LET archive == compress_write(paths, 1, f, <<>>)
       IN  [exc |-> archive.exc,
            fs |-> (abspath(target_filepath) :>
                      [kind |-> "zip", entries |-> archive.entries]) @@ f]

\* muninn.util.copy_path(source, target) for a file: into target when
\* target is a directory, copying the contents with shutil.copy
copy_path(source, target, f) ==
  LET dest == IF isdir(f, target)
              THEN join(normpath(target), basename(normpath(source)))
              ELSE normpath(target)
  IN  IF ~exists(f, source) THEN [exc |-> "FileNotFoundError", fs |-> f]
      ELSE IF abspath(dest) = abspath(source)
      THEN [exc |-> "SameFileError", fs |-> f]
      ELSE IF ~isdir(f, dirname(abspath(dest)))
      THEN [exc |-> "FileNotFoundError", fs |-> f]
      ELSE [exc |-> "None", fs |-> (abspath(dest) :> node(f, source)) @@ f]

\* export_zip without the branch for a zipped input: every input is packed
export_zip_always_packed(d, properties, target_path, paths, f) ==
  IF paths = <<>> THEN [exc |-> "IndexError", value |-> None, fs |-> f]
  ELSE LET joined == join(abspath(target_path), properties.core["physical_name"])
           stripped == IF d.extension # None /\ d.extension # <<>>
                       THEN SubSeq(joined, 1, Len(joined) - Len(d.extension))
                       ELSE joined
           target_filepath == stripped \o DOT_ZIP
           compressed == compress(paths, target_filepath, f)
       IN  IF compressed.exc # "None"
           THEN [exc |-> compressed.exc, value |-> None, fs |-> compressed.fs]
           ELSE [exc |-> "None", value |-> target_filepath, fs |-> compressed.fs]

\* EOFProduct.export_zip: [exc, value, fs]
export_zip(d, properties, target_path, paths, f) ==
  IF paths = <<>> THEN [exc |-> "IndexError", value |-> None, fs |-> f]
  ELSE IF is_zipped(paths[1])
  THEN IF Len(paths) # 1
       THEN [exc |-> "AssertionError", value |-> None, fs |-> f]
       ELSE LET copied == copy_path(paths[1], target_path, f)
            IN  IF copied.exc # "None"
                THEN [exc |-> copied.exc, value |-> None, fs |-> copied.fs]
                ELSE [exc |-> "None",
                      value |-> join(target_path, basename(paths[1])),
                      fs |-> copied.fs]
  ELSE LET joined == join(abspath(target_path), properties.core["physical_name"])
           stripped == IF d.extension # None /\ d.extension # <<>>
                       THEN SubSeq(joined, 1, Len(joined) - Len(d.extension))
                       ELSE joined
           target_filepath == stripped \o DOT_ZIP
           compressed == compress(paths, target_filepath, f)
       IN  IF compressed.exc # "None"
           THEN [exc |-> compressed.exc, value |-> None, fs |-> compressed.fs]
           ELSE [exc |-> "None", value |-> target_filepath, fs |-> compressed.fs]

---------------------------------------------------------------------------
(* The files and calls the model explores                                  *)

\* the longest path list handed to identify and analyze
MaxPaths == 3
\* the number of files export_zip may write in one run
MaxExports == 1
\* the longest list of loose files handed to export_zip
MaxExportPaths == 2

D2(n) == <<DigitSeq[(n \div 10) + 1], DigitSeq[(n % 10) + 1]>>
D4(n) == D2(n \div 100) \o D2(n % 100)
\* a time in the timestamp format of the file names, YYYYMMDDTHHMMSSZ
compact(y, m, d, H, M, S) ==
  D4(y) \o D2(m) \o D2(d) \o <<"T">> \o D2(H) \o D2(M) \o D2(S) \o <<"Z">>
\* a time in the timestamp format of the headers, UTC=YYYY-MM-DDTHH:MM:SS
utc(y, m, d, H, M, S) ==
  <<"U", "T", "C", "=">> \o D4(y) \o <<"-">> \o D2(m) \o <<"-">> \o D2(d)
    \o <<"T">> \o D2(H) \o <<":">> \o D2(M) \o <<":">> \o D2(S)

\* the named groups of a descriptor's pattern
group_names(d) ==
  {d.filename_pattern[i].name :
     i \in {k \in 1..Len(d.filename_pattern) : d.filename_pattern[k].t = "grp"}}

\* a file name (without extension) written after the grammar of section
\* "Filename grammar surface": ECA, file class, type code, validity start,
\* then creation date and orbit + frame, or validity stop and version
build_name(product_type, fields) ==
  <<"E", "C", "A", "_">> \o fields["file_class"] \o <<"_">> \o product_type
    \o <<"_">> \o fields["validity_start"] \o <<"_">>
    \o (IF "version" \in DOMAIN fields
        THEN fields["validity_stop"] \o <<"_">> \o fields["version"]
        ELSE fields["creation_date"] \o <<"_">> \o fields["orbit_number"]
               \o fields["frame_id"])

\* the same fields written as the scenario of the specification writes
\* them, with no "_" between ECA and the file class
scenario_name(product_type, fields) ==
  <<"E", "C", "A">> \o SubSeq(build_name(product_type, fields), 5,
                              Len(build_name(product_type, fields)))

FileClasses == {<<"A", "B", "C", "D">>, <<"0", "x", "_", "Z">>}
Starts == {compact(2023, 1, 1, 0, 0, 0), compact(2024, 2, 29, 23, 59, 59)}
Creations == {compact(2023, 1, 1, 1, 0, 0), compact(2024, 3, 1, 0, 0, 0)}
Stops == {compact(2023, 1, 1, 1, 0, 0), FILENAME_STOP_SENTINEL}
Orbits == {<<"0", "0", "0", "0", "1">>, <<"1", "2", "3", "4", "5">>}
Frames == {<<"A">>, <<"Z">>}
Versions == {<<"0", "0", "0", "1">>, <<"9", "9", "9", "0">>}

\* every choice of field values for the grammar of descriptor d
grammar_fields(d) ==
  IF "version" \in group_names(d)
  THEN [file_class : FileClasses, validity_start : Starts,
        validity_stop : Stops, version : Versions]
  ELSE [file_class : FileClasses, validity_start : Starts,
        creation_date : Creations, orbit_number : Orbits, frame_id : Frames]

\* the extensions the pattern of d accepts
accepted_extensions(d) ==
  IF d.extension = None
  THEN {<<>>, DOT_HDR, <<".", "h", "5">>, DOT_ZIP}
  ELSE {d.extension, DOT_ZIP}

\* two products of the type of d
fields_X(d) ==
  IF "version" \in group_names(d)
  THEN [file_class |-> <<"A", "B", "C", "D">>,
        validity_start |-> compact(2023, 1, 1, 0, 0, 0),
        validity_stop |-> FILENAME_STOP_SENTINEL,
        version |-> <<"0", "0", "0", "1">>]
  ELSE [file_class |-> <<"A", "B", "C", "D">>,
        validity_start |-> compact(2023, 1, 1, 0, 0, 0),
        creation_date |-> compact(2023, 1, 1, 1, 0, 0),
        orbit_number |-> <<"0", "0", "0", "0", "1">>,
        frame_id |-> <<"A">>]
fields_Y(d) ==
  IF "version" \in group_names(d)
  THEN [file_class |-> <<"E", "X", "A", "B">>,
        validity_start |-> compact(2024, 2, 29, 0, 0, 0),
        validity_stop |-> compact(2024, 3, 1, 0, 0, 0),
        version |-> <<"0", "0", "0", "2">>]
  ELSE [file_class |-> <<"E", "X", "A", "B">>,
        validity_start |-> compact(2024, 2, 29, 0, 0, 0),
        creation_date |-> compact(2024, 3, 1, 0, 0, 0),
        orbit_number |-> <<"1", "2", "3", "4", "5">>,
        frame_id |-> <<"Z">>]
X(d) == build_name(d.product_type, fields_X(d))
Y(d) == build_name(d.product_type, fields_Y(d))
S(d) == scenario_name(d.product_type, fields_X(d))

DOT_H5 == <<".", "h", "5">>
DIR_IN == <<"/", "i", "n">>
DIR_D == <<"/", "i", "n", "/", "d">>
DIR_OUT == <<"/", "o", "u", "t">>
REL_IN == <<"i", "n">>
REL_OUT == <<"o", "u", "t">>

\* an EOF header document: the bare header of a .HDR file (root tag
\* Earth_Explorer_Header) or the header inside an Earth_Explorer_File
header_doc(tag, start, stop, creator, with_frame) ==
  LET p == IF tag = "Earth_Explorer_File" THEN "Earth_Explorer_Header/" ELSE ""
      c == p \o "Variable_Header/MainProductHeader/"
      g == "/GeographicCoordinates/"
  IN  [xml |-> TRUE, tag |-> tag,
       elems |->
         (p \o "Fixed_Header/Validity_Period/Validity_Start" :> start)
         @@ (p \o "Fixed_Header/Validity_Period/Validity_Stop" :> stop)
         @@ (p \o "Fixed_Header/Source/Creation_Date" :> utc(2023, 1, 2, 3, 4, 5))
         @@ (p \o "Fixed_Header/Source/System" :> <<"P", "D", "G", "S">>)
         @@ (p \o "Fixed_Header/Source/Creator" :> creator)
         @@ (p \o "Fixed_Header/Source/Creator_Version" :> <<"1", ".", "0">>)
         @@ (IF with_frame
             THEN (c \o "frameStartCoordinates" :> <<>>)
                  @@ (c \o "frameStartCoordinates" \o g \o "geographicLatitude"
                        :> <<"-", "1", "0", ".", "5">>)
                  @@ (c \o "frameStartCoordinates" \o g \o "geographicLongitude"
                        :> <<"2", "0">>)
                  @@ (c \o "frameStopCoordinates" :> <<>>)
                  @@ (c \o "frameStopCoordinates" \o g \o "geographicLatitude"
                        :> <<"1", "2", ".", "2", "5">>)
                  @@ (c \o "frameStopCoordinates" \o g \o "geographicLongitude"
                        :> <<"2", "1">>)
             ELSE Struct)]

HDR_X ==
  header_doc("Earth_Explorer_Header", utc(2023, 1, 1, 0, 0, 1),
             utc(2023, 1, 1, 0, 59, 59), <<"M", "1">>, TRUE)
HDR_Y ==
  header_doc("Earth_Explorer_Header", utc(2024, 2, 29, 0, 0, 1),
             HEADER_STOP_SENTINEL, <<"M", "2">>, FALSE)
EOF_X ==
  header_doc("Earth_Explorer_File", utc(2023, 1, 1, 0, 0, 1),
             HEADER_STOP_SENTINEL, <<"F", "1">>, FALSE)
EOF_Y ==
  header_doc("Earth_Explorer_File", utc(2024, 2, 29, 0, 0, 1),
             utc(2024, 2, 29, 23, 59, 59), <<"F", "2">>, FALSE)
DATA == [xml |-> FALSE, data |-> "h5"]

File(content) == [kind |-> "file", content |-> content]
Dir == [kind |-> "dir"]

\* the extension of the data file of a product of d
data_extension(d) == IF d.extension = None THEN DOT_H5 ELSE d.extension

\* the zip archive a product of d is delivered in
delivered_zip(d) ==
  [kind |-> "zip",
   entries |->
     IF d.is_multi_file_product
     THEN <<[name |-> X(d) \o DOT_H5, content |-> DATA],
            [name |-> X(d) \o DOT_HDR, content |-> HDR_X]>>
     ELSE <<[name |-> join(X(d), X(d) \o d.extension), content |-> EOF_X],
            [name |-> join(X(d), X(d) \o DOT_HDR), content |-> HDR_X]>>]

\* the type of the end-to-end scenario
MSI_NOM_1B == <<"M", "S", "I", "_", "N", "O", "M", "_", "1", "B">>

\* the incoming directory /in: the files of product X, the header (or the
\* file) of product Y, the delivered zip, a directory named like a product
\* file and, for the type of the scenario, the pair of files named as the
\* scenario names them
incoming(d) ==
  (join(DIR_IN, X(d) \o DOT_HDR) :> File(HDR_X))
  @@ (join(DIR_IN, X(d) \o DOT_ZIP) :> delivered_zip(d))
  @@ (join(DIR_D, X(d) \o data_extension(d)) :> Dir)
  @@ (IF d.is_multi_file_product
      THEN (join(DIR_IN, X(d) \o DOT_H5) :> File(DATA))
           @@ (join(DIR_IN, Y(d) \o DOT_HDR) :> File(HDR_Y))
      ELSE (join(DIR_IN, X(d) \o d.extension) :> File(EOF_X))
           @@ (join(DIR_IN, Y(d) \o d.extension) :> File(EOF_Y)))
  @@ (IF d.product_type = MSI_NOM_1B
      THEN (join(DIR_IN, S(d) \o DOT_HDR) :> File(HDR_X))
           @@ (join(DIR_IN, S(d) \o DOT_H5) :> File(DATA))
      ELSE Struct)
  @@ (DIR_IN :> Dir) @@ (DIR_D :> Dir) @@ (cwd :> Dir)

\* the candidate paths of the recognition calls: what /in holds
Paths(d) ==
  {p \in DOMAIN incoming(d) : p \notin {DIR_IN, DIR_D, cwd}}

PathLists(d) == UNION {[1..n -> Paths(d)] : n \in 0..MaxPaths}

NoCall == [op |-> "none"]

Init ==
  /\ self \in {product_type_plugin(t) : t \in product_types}
  /\ fs = incoming(self)
  /\ call = NoCall
  /\ result = Return(None)

\* the catalogue makes one call at a time, and takes the result before the
\* next call
Idle == call = NoCall

\* parse_filename on a name synthesized from the grammar, and on a
\* candidate path
ParseFilename ==
  /\ Idle
  /\ \/ \E fields \in grammar_fields(self), ext \in accepted_extensions(self),
          dir \in {<<>>, DIR_IN} :
          LET filename == join(dir, build_name(self.product_type, fields) \o ext)
          IN  /\ call' = [op |-> "parse_filename", filename |-> filename,
                          synthesized |-> TRUE, fields |-> fields]
              /\ result' = Return(parse_filename(self, filename))
     \/ \E filename \in Paths(self) :
          /\ call' = [op |-> "parse_filename", filename |-> filename,
                      synthesized |-> FALSE, fields |-> Struct]
          /\ result' = Return(parse_filename(self, filename))
  /\ UNCHANGED <<self, fs>>

Identify ==
  /\ Idle
  /\ \E paths \in PathLists(self) :
       /\ call' = [op |-> "identify", paths |-> paths]
       /\ result' = identify(self, paths, fs)
  /\ UNCHANGED <<self, fs>>

Analyze ==
  /\ Idle
  /\ \E paths \in PathLists(self), filename_only \in BOOLEAN :
       /\ call' = [op |-> "analyze", paths |-> paths,
                   filename_only |-> filename_only]
       /\ result' = analyze(self, paths, filename_only, fs)
  /\ UNCHANGED <<self, fs>>

\* the caller takes the result
TakeResult ==
  /\ ~Idle
  /\ call' = NoCall
  /\ result' = Return(None)
  /\ UNCHANGED <<self, fs>>

Next == ParseFilename \/ Identify \/ Analyze \/ TakeResult

Spec == Init /\ [][Next]_vars

---------------------------------------------------------------------------
(* Packaging runs: the catalogue exports products and analyses archives    *)

DIR_W_IN == join(cwd, REL_IN)
DIR_W_OUT == join(cwd, REL_OUT)

\* the names of the loose files of product X
export_names(d) ==
  IF d.is_multi_file_product
  THEN {X(d) \o DOT_H5, X(d) \o DOT_HDR}
  ELSE {X(d) \o d.extension}

\* the files of product X in /in, in the directory in of the working
\* directory and in the working directory itself, the delivered zip, and
\* the two target directories
export_fs(d) ==
  LET names == export_names(d)
      In(dir) == [p \in {join(dir, n) : n \in names} |->
                    File(IF endswith(p, DOT_H5) THEN DATA
                         ELSE IF endswith(p, DOT_HDR) THEN HDR_X ELSE EOF_X)]
  IN  In(DIR_IN) @@ In(DIR_W_IN) @@ In(cwd)
      @@ (join(DIR_IN, X(d) \o DOT_ZIP) :> delivered_zip(d))
      @@ (join(DIR_IN, X(d) \o DOT_HDR) :> File(HDR_X))
      @@ [p \in {DIR_IN, DIR_W_IN, cwd, DIR_OUT, DIR_W_OUT} |-> Dir]

\* how a caller may write the directory of the input paths: absolute,
\* relative, or not at all
InputDirs == {DIR_IN, REL_IN, <<>>}
Targets == {DIR_OUT, REL_OUT}

\* the path lists handed to export_zip: loose files of one directory, the
\* delivered zip, and the delivered zip with an extra path
ExportPathLists(d) ==
  {[i \in DOMAIN names |-> join(dir, names[i])] :
     dir \in InputDirs,
     names \in UNION {[1..n -> export_names(d)] : n \in 1..MaxExportPaths}}
  \cup {<<join(DIR_IN, X(d) \o DOT_ZIP)>>,
        <<join(DIR_IN, X(d) \o DOT_ZIP), join(DIR_IN, X(d) \o DOT_HDR)>>}

\* the properties the catalogue holds of an ingested product: those of
\* analyze, and the physical name, which is the enclosing directory for a
\* descriptor with use_enclosing_directory and the file name otherwise
catalogued(d, paths, properties) ==
  [properties EXCEPT !.core =
     ("physical_name" :> (IF d.use_enclosing_directory
                          THEN enclosing_directory(d, properties)
                          ELSE basename(paths[1])))
       @@ properties.core]

\* one descriptor of each kind of the registry: a multi-file type, a
\* single-file EarthCAREProduct type and an AUXProduct type
ExportTypes ==
  {MSI_NOM_1B,
   <<"G", "E", "O", "_", "O", "R", "B", "O", "B", "S">>,
   <<"A", "U", "X", "_", "O", "R", "B", "P", "R", "E">>}

InitExport ==
  /\ self \in {product_type_plugin(t) : t \in ExportTypes}
  /\ fs = export_fs(self)
  /\ call = NoCall
  /\ result = Return(None)

\* the files a run has written into the filesystem f
written(f) == DOMAIN f \ DOMAIN export_fs(self)

ExportZip ==
  /\ Idle
  /\ \E paths \in ExportPathLists(self), target_path \in Targets :
       \E analyzed \in {analyze(self, paths, TRUE, fs)} :
         /\ analyzed.exc = "None"
         /\ \E properties \in {catalogued(self, paths, analyzed.value)} :
              \E exported \in {export_zip(self, properties, target_path, paths, fs)} :
                /\ Cardinality(written(exported.fs)) <= MaxExports
                /\ call' = [op |-> "export_zip", paths |-> paths,
                            target_path |-> target_path,
                            physical_name |-> properties.core["physical_name"]]
                /\ result' = [exc |-> exported.exc, value |-> exported.value]
                /\ fs' = exported.fs
  /\ UNCHANGED self

\* analyze on an archive of the filesystem, given as the sole path
AnalyzeArchive ==
  /\ Idle
  /\ \E p \in {q \in DOMAIN fs : fs[q].kind = "zip"}, filename_only \in BOOLEAN :
       /\ call' = [op |-> "analyze", paths |-> <<p>>,
                   filename_only |-> filename_only]
       /\ result' = analyze(self, <<p>>, filename_only, fs)
  /\ UNCHANGED <<self, fs>>

NextExport == ExportZip \/ AnalyzeArchive \/ TakeResult

SpecExport == InitExport /\ [][NextExport]_vars

---------------------------------------------------------------------------
(* Properties                                                              *)

\* ECAABCD_MSI_NOM_1B_20230101T000000Z_20230101T010000Z_00001A, the
\* product name of the end-to-end scenario as the specification writes it
SCENARIO_NAME ==
  <<"E", "C", "A", "A", "B", "C", "D", "_", "M", "S", "I", "_", "N", "O",
    "M", "_", "1", "B", "_", "2", "0", "2", "3", "0", "1", "0", "1", "T",
    "0", "0", "0", "0", "0", "0", "Z", "_", "2", "0", "2", "3", "0", "1",
    "0", "1", "T", "0", "1", "0", "0", "0", "0", "Z", "_", "0", "0", "0",
    "0", "1", "A">>
\* ECA_ABCD_MSI_NOM_1B_20230101T000000Z_20230101T010000Z_00001A, the same
\* fields with the separator the pattern asks for after ECA
SEPARATED_NAME ==
  <<"E", "C", "A", "_", "A", "B", "C", "D", "_", "M", "S", "I", "_", "N",
    "O", "M", "_", "1", "B", "_", "2", "0", "2", "3", "0", "1", "0", "1",
    "T", "0", "0", "0", "0", "0", "0", "Z", "_", "2", "0", "2", "3", "0",
    "1", "0", "1", "T", "0", "1", "0", "0", "0", "0", "Z", "_", "0", "0",
    "0", "0", "1", "A">>

\* the header file of a product name and its data counterpart in /in, in
\* either order
pair_of(name) ==
  {<<join(DIR_IN, name \o DOT_HDR), join(DIR_IN, name \o DOT_H5)>>,
   <<join(DIR_IN, name \o DOT_H5), join(DIR_IN, name \o DOT_HDR)>>}

\* what the scenario expects of identify and analyze on the pair of a name
scenario_holds(name) ==
  (self.product_type = MSI_NOM_1B /\ call.op \in {"identify", "analyze"}
     /\ call.paths \in pair_of(name)) =>
    /\ \A p \in {call.paths[1], call.paths[2]} :
         exists(fs, p) /\ fs[abspath(p)].kind = "file"
    /\ call.op = "identify" => result = Return(TRUE)
    /\ call.op = "analyze" =>
         /\ result.exc = "None"
         /\ result.value.earthcare["orbit_number"] = 1
         /\ result.value.earthcare["frame_id"] = <<"A">>
         /\ result.value.earthcare["file_class"] = <<"A", "B", "C", "D">>
         /\ result.value.earthcare["baseline"] = <<"C", "D">>

\* C1 (as stated): for the header file
\* ECAABCD_MSI_NOM_1B_20230101T000000Z_20230101T010000Z_00001A.HDR and its
\* data counterpart, identify on the descriptor of MSI_NOM_1B returns true
\* and analyze yields orbit_number 1, frame_id "A", file_class "ABCD" and
\* baseline "CD".
C1_ScenarioAsWritten == scenario_holds(SCENARIO_NAME)

\* C1 (amended): for the header file
\* ECA_ABCD_MSI_NOM_1B_20230101T000000Z_20230101T010000Z_00001A.HDR and its
\* data counterpart, identify on the descriptor of MSI_NOM_1B returns true
\* and analyze yields orbit_number 1, frame_id "A", file_class "ABCD" and
\* baseline "CD".
C1_ScenarioSeparated == scenario_holds(SEPARATED_NAME)

\* analyze has read the header of the pair of the separated name
C1_Witness ==
  /\ self.product_type = MSI_NOM_1B
  /\ call.op = "analyze"
  /\ call.paths \in pair_of(SEPARATED_NAME)
  /\ ~call.filename_only
  /\ result.exc = "None"
  /\ result.value.earthcare["baseline"] = <<"C", "D">>

\* the number of paths identify requires of a list
required_count(d, paths) ==
  IF d.is_multi_file_product /\ paths # <<>> /\ ~endswith(paths[1], DOT_ZIP)
  THEN 2 ELSE 1

\* C2: identify returns false, as a value, whenever the number of paths
\* differs from the required count (2 for a multi-file product whose
\* first path does not end in .ZIP, 1 otherwise) and whenever a path of
\* the list is a directory.
C2_IdentifyRejectsByValue ==
  (call.op = "identify"
     /\ \/ Len(call.paths) # required_count(self, call.paths)
        \/ \E i \in 1..Len(call.paths) : isdir(fs, call.paths[i])) =>
    result = Return(FALSE)

\* C3: a file name built from the grammar of a registered type, with an
\* extension the descriptor accepts, is matched by parse_filename, and the
\* group map holds exactly the field values the name was built from.
C3_RoundTrip ==
  (call.op = "parse_filename" /\ call.synthesized) =>
    /\ result.exc = "None"
    /\ result.value # None
    /\ DOMAIN result.value = DOMAIN call.fields
    /\ \A g \in DOMAIN call.fields : result.value[g] = call.fields[g]

\* a name with a version and the open-ended stop, given with its
\* directory, has been parsed
C3_Witness ==
  /\ call.op = "parse_filename"
  /\ call.synthesized
  /\ startswith_at(call.filename, DIR_IN, 1)
  /\ "version" \in DOMAIN call.fields
  /\ result.value # None
  /\ result.value["validity_stop"] = FILENAME_STOP_SENTINEL

\* C4: when export_zip packs two loose files, a data file and a header
\* file, the archive has exactly two entries and each entry's name is the
\* basename of the corresponding input path, however the input paths are
\* written (absolute, relative with a directory, bare file names).
C4_EntryNamesAreBasenames ==
  (call.op = "export_zip" /\ result.exc = "None" /\ Len(call.paths) = 2
     /\ call.paths[1] # call.paths[2]
     /\ \A i \in 1..2 : ~endswith(call.paths[i], DOT_ZIP)) =>
    LET entries == fs[abspath(result.value)].entries
    IN  /\ Len(entries) = 2
        /\ \A i \in 1..2 : entries[i].name = basename(call.paths[i])

\* the target path export_zip computes for loose input: the target
\* directory, and the physical name with the descriptor's extension
\* replaced by .ZIP
computed_target(d, target_path, physical_name) ==
  join(abspath(target_path),
       (IF d.extension = None THEN physical_name
        ELSE SubSeq(physical_name, 1, Len(physical_name) - Len(d.extension)))
         \o DOT_ZIP)

first_path_header(paths) ==
  IF Len(paths) > 1 THEN splitext(paths[1])[1] \o DOT_HDR ELSE paths[1]

\* the text of an element of the fixed header of a document, None if the
\* document has no such element
fixed_header_text(doc, element) ==
  LET prefixed == IF doc.tag = "Earth_Explorer_File"
                  THEN "Earth_Explorer_Header/Fixed_Header/" \o element
                  ELSE "Fixed_Header/" \o element
  IN  IF prefixed \in DOMAIN doc.elems THEN doc.elems[prefixed] ELSE None

\* whether a loose path holds a header document, and the document
has_loose_header(f, path) ==
  /\ exists(f, path)
  /\ f[abspath(path)].kind = "file"
  /\ f[abspath(path)].content.xml
loose_header(f, path) == f[abspath(path)].content

\* C6: analyze sets validity_stop to datetime.max when the validity_stop
\* group of the file name is 99999999T999999Z, and the header overlay sets
\* it to the same value when the header's Validity_Stop is
\* UTC=9999-99-99T99:99:99; in neither case does the call fail with the
\* date parser's ValueError.
C6_SentinelIsOpenEnd ==
  (call.op = "analyze" /\ call.paths # <<>>) =>
    LET path == first_path_header(call.paths)
        groups == re_match(self.filename_pattern, basename(path)).groups
        named_open == /\ re_match(self.filename_pattern, basename(path)).matched
                      /\ "validity_stop" \in DOMAIN groups
                      /\ groups["validity_stop"] = FILENAME_STOP_SENTINEL
        header_open == /\ ~call.filename_only
                       /\ ~endswith(path, DOT_ZIP)
                       /\ has_loose_header(fs, path)
                       /\ fixed_header_text(loose_header(fs, path),
                                            "Validity_Period/Validity_Stop")
                            = HEADER_STOP_SENTINEL
    IN  /\ (named_open \/ header_open) => result.exc # "ValueError"
        /\ (named_open /\ call.filename_only) =>
             result.exc = "None" /\ result.value.core["validity_stop"] = datetime_max
        /\ (header_open /\ result.exc = "None") =>
             result.value.core["validity_stop"] = datetime_max

\* an auxiliary orbit file named with the all-nines stop, whose header
\* is open-ended too, has been analyzed with its header
C6_Witness ==
  /\ "version" \in group_names(self)
  /\ call.op = "analyze"
  /\ call.paths = <<join(DIR_IN, X(self) \o DOT_EOF)>>
  /\ ~call.filename_only
  /\ result.exc = "None"
  /\ result.value.core["validity_stop"] = datetime_max

\* C7: for a list of more than one path whose first path is a .ZIP,
\* identify returns false and analyze fails with an error instead of
\* returning a metadata record.
C7_ZippedWithExtraPaths ==
  (call.op \in {"identify", "analyze"} /\ Len(call.paths) > 1
     /\ endswith(call.paths[1], DOT_ZIP)) =>
    /\ call.op = "identify" => result = Return(FALSE)
    /\ call.op = "analyze" => result.exc # "None"

\* C8: export_zip with a single input path that ends in .ZIP copies the
\* input as it is into the target directory, creates nothing else and
\* changes no other file, and returns the target directory joined with
\* the basename of the input.
C8_ZippedIsPureCopy ==
  [][(call.op = "none" /\ call'.op = "export_zip" /\ Len(call'.paths) = 1
        /\ endswith(call'.paths[1], DOT_ZIP)) =>
       LET source == call'.paths[1]
           copied == join(call'.target_path, basename(source))
       IN  /\ result' = Return(copied)
           /\ DOMAIN fs' = DOMAIN fs \cup {abspath(copied)}
           /\ fs'[abspath(copied)] = fs[abspath(source)]
           /\ \A p \in DOMAIN fs : p # abspath(copied) => fs'[p] = fs[p]]_vars

\* the delivered zip has been exported into the target directory
C8_Witness ==
  /\ call.op = "export_zip"
  /\ call.paths = <<join(DIR_IN, X(self) \o DOT_ZIP)>>
  /\ result = Return(join(call.target_path, X(self) \o DOT_ZIP))
  /\ fs[abspath(result.value)] = delivered_zip(self)

\* C9 (as stated): when analyze is given more than one path, the product
\* name and the header read are those of the second path with its
\* extension replaced by .HDR, for every two-path list identify accepts.
C9_SecondPathIsRepresentative ==
  (call.op = "analyze" /\ Len(call.paths) = 2
     /\ identify(self, call.paths, fs) = Return(TRUE)) =>
    LET path == splitext(call.paths[2])[1] \o DOT_HDR
    IN  /\ result.exc = "None"
        /\ result.value.core["product_name"] = splitext(basename(path))[1]
        /\ (~call.filename_only /\ has_loose_header(fs, path)) =>
             result.value.earthcare["processor_name"]
               = fixed_header_text(loose_header(fs, path), "Source/Creator")

\* C9 (amended): when analyze is given more than one path, the product
\* name and the header read are those of the first path with its
\* extension replaced by .HDR; when given one path, those of that path.
C9_FirstPathIsRepresentative ==
  (call.op = "analyze" /\ call.paths # <<>>) =>
    LET path == first_path_header(call.paths)
    IN  /\ result.exc = "None" =>
             result.value.core["product_name"] = splitext(basename(path))[1]
        /\ (result.exc = "None" /\ ~call.filename_only /\ ~endswith(path, DOT_ZIP)) =>
             /\ has_loose_header(fs, path)
             /\ result.value.earthcare["processor_name"]
                  = fixed_header_text(loose_header(fs, path), "Source/Creator")
        /\ (~call.filename_only /\ ~endswith(path, DOT_ZIP)
              /\ ~has_loose_header(fs, path)) => result.exc # "None"

\* analyze has read the header of a pair identify accepts whose two
\* basenames differ
C9_Witness ==
  /\ call.op = "analyze"
  /\ Len(call.paths) = 2
  /\ identify(self, call.paths, fs) = Return(TRUE)
  /\ splitext(basename(call.paths[1]))[1] # splitext(basename(call.paths[2]))[1]
  /\ ~call.filename_only
  /\ result.exc = "None"
  /\ result.value.core["product_name"] = splitext(basename(call.paths[1]))[1]

\* C10: when export_zip has packed an unzipped path set that identify
\* accepts, analyze with filename_only = False on the archive written, as
\* its sole path, finds the header component it asks for inside the zip:
\* the header lookup does not fail with a missing entry (KeyError).
C10_PackedArchiveHoldsHeader ==
  (call.op = "export_zip" /\ result.exc = "None"
     /\ ~endswith(call.paths[1], DOT_ZIP)
     /\ identify(self, call.paths, fs) = Return(TRUE)) =>
    analyze(self, <<result.value>>, FALSE, fs).exc # "KeyError"

=============================================================================
